---- MODULE Spec2Model ----
(***************************************************************************)
(* Model of the type-directed JSON writer of                               *)
(* training-2018/examples/serialization_json.cpp and, further down, of the *)
(* employees database of examples/EmployeeDb/src/EmployeesDb.cpp.          *)
(*                                                                         *)
(* A character is a one-character string, a text a sequence of characters. *)
(* A type is a tuple: <<"int">>, <<"Foo">>, <<"vector", T>>, ...           *)
(* A value is shaped by its type:                                          *)
(*   int: an integer; bool: a boolean; char: a character;                  *)
(*   string, string_view, char_array: a text;                              *)
(*   vector<T>: a sequence of T values;                                    *)
(*   optional<T>, raw_ptr<T>, unique_ptr<T>, shared_ptr<T>: <<>> when      *)
(*     empty/null and <<x>> when it holds/points to x;                     *)
(*   a class: <<fields, elems, target>>: the tuple of its field values,    *)
(*     the sequence it iterates over (when it has begin/end) and what it   *)
(*     dereferences to (when it has operator* / operator->).               *)
(* print(T, v, n) is the sequence of effects, in program order, of the     *)
(* call print(os, v, n); a session plays these effects one per step.       *)
(***************************************************************************)
EXTENDS Integers, Sequences, FiniteSets, TLC

\* Longest sequence (vector) drawn as an input.
MaxLen == 2

\* Deepest nesting of wrappers (vector, optional, pointers) put around a base
\* type to make an input type; the nested types of main are inputs as well.
MaxDepth == 1

\* The writer: the streams (text, boolalpha flag, badbit, exception mask) and
\* the calls of print in progress.
VARIABLES sink, boolalpha, badbit, exceptions, os, arg, todo, pc, depth, mark,
          failpos

\* The employees database: the members of EmployeesDb, the static counter of
\* generateId, and the operation a caller did last with what it returned.
VARIABLES mEmployees, mNameLookup, mIdLookup, generateId_id, dbpc, call, log

dbvars == <<mEmployees, mNameLookup, mIdLookup, generateId_id, dbpc, call, log>>

writervars == <<sink, boolalpha, badbit, exceptions, os, arg, todo, pc, depth,
                mark, failpos>>

vars == <<writervars, dbvars>>

(***************************************************************************)
(* Characters and texts                                                    *)
(***************************************************************************)

\* '\"'
Quote == "\""

\* '\b', the backspace character (one byte, 0x08)
Backspace == "\\b"

DigitChar == <<"0", "1", "2", "3", "4", "5", "6", "7", "8", "9">>

RECURSIVE Digits(_)
\* the decimal digits of a natural number, as operator<<(int) writes them
Digits(k) ==
    IF k < 10 THEN <<DigitChar[k + 1]>>
    ELSE Digits(k \div 10) \o <<DigitChar[(k % 10) + 1]>>

\* os << v for an int v
IntText(i) == IF i < 0 THEN <<"-">> \o Digits(0 - i) ELSE Digits(i)

\* os << v for a bool v: the words with the boolalpha flag set, 1/0 without
BoolText(b, alpha) ==
    IF alpha THEN (IF b THEN <<"t", "r", "u", "e">> ELSE <<"f", "a", "l", "s", "e">>)
    ELSE (IF b THEN <<"1">> ELSE <<"0">>)

(***************************************************************************)
(* Types                                                                   *)
(***************************************************************************)

\* struct Foo, Bar, Baz of the source
SourceClasses == {"Foo", "Bar", "Baz"}

\* Two more classes given to the writer as inputs: one that has begin/end/
\* iterator and a serialize member, one that has operator* / operator-> and a
\* serialize member.
ProbeClasses == {"IterableAggregate", "HandleAggregate"}

ClassNames == SourceClasses \cup ProbeClasses

BuiltinNames == {"int", "bool", "char", "string", "string_view", "char_array"}

BaseTypes == {<<b>> : b \in BuiltinNames \cup ClassNames}

Wrappers == {"vector", "optional", "raw_ptr", "unique_ptr", "shared_ptr"}

RECURSIVE TypesUpTo(_)
TypesUpTo(d) ==
    IF d = 0 THEN BaseTypes
    ELSE LET S == TypesUpTo(d - 1)
         IN  S \cup {<<w, T>> : w \in Wrappers, T \in S}

\* the types main prints that nest deeper: int**,
\* std::vector<std::optional<int>>, std::optional<std::vector<std::optional<int>>>
MainTypes ==
    {<<"raw_ptr", <<"raw_ptr", <<"int">>>>>>,
     <<"vector", <<"optional", <<"int">>>>>>,
     <<"optional", <<"vector", <<"optional", <<"int">>>>>>>>}

Types == TypesUpTo(MaxDepth) \cup MainTypes

IsClass(T) == T[1] \in ClassNames

\* the fields a class's serialize writes, in its order: <<name, type>>
ClassFields(c) ==
    CASE c = "Foo" -> << <<<<"i">>, <<"int">>>>, <<<<"s">>, <<"string">>>> >>
      [] c = "Bar" -> << <<<<"f", "o", "o", "s">>, <<"vector", <<"Foo">>>>>> >>
      [] c = "Baz" -> << <<<<"n", "a", "m", "e">>, <<"string">>>>,
                         <<<<"v", "a", "l", "i", "d">>, <<"bool">>>>,
                         <<<<"b", "a", "r">>, <<"optional", <<"Bar">>>>>> >>
      [] c = "IterableAggregate" -> << <<<<"i">>, <<"int">>>> >>
      [] c = "HandleAggregate" -> << <<<<"i">>, <<"int">>>> >>

\* what a class with begin/end iterates over, what one with operator* yields
ClassElemType(c) == <<"int">>
ClassTargetType(c) == <<"int">>

(***************************************************************************)
(* The traits                                                              *)
(***************************************************************************)

\* is_container<T>: T has begin(), end() and a nested type iterator
is_container(T) ==
    T[1] \in {"vector", "string", "string_view", "IterableAggregate"}

\* std::is_convertible_v<T, std::string>
is_convertible_to_string(T) == T[1] \in {"string", "char_array"}

\* std::is_convertible_v<T, std::string_view>
is_convertible_to_string_view(T) ==
    T[1] \in {"string", "string_view", "char_array"}

\* is_pointer_like<T>: T has member operator->() and operator*()
is_pointer_like(T) ==
    T[1] \in {"optional", "unique_ptr", "shared_ptr", "HandleAggregate"}

\* std::is_pointer_v<T>
is_pointer(T) == T[1] = "raw_ptr"

\* has_member_function_serialize<T, Writer&>
has_member_function_serialize(T) == IsClass(T)

\* std::is_assignable_v<T, std::nullopt_t>
is_assignable_nullopt(T) == T[1] = "optional"

(***************************************************************************)
(* Input values                                                            *)
(***************************************************************************)

IntValues == {0, 7, 120, -45}

CharValues == {"c", ","}

TextValues == {<<>>, <<"h", "i">>, <<"a", Quote, "b">>}

IsNullableType(T) ==
    T[1] \in {"optional", "raw_ptr", "unique_ptr", "shared_ptr"}

RECURSIVE FewSeq(_)
\* two values of a type, a plain one and a richer one, used as the elements
\* of the sequences drawn as inputs
FewSeq(T) ==
    CASE T[1] = "int" -> <<0, 120>>
      [] T[1] = "bool" -> <<FALSE, TRUE>>
      [] T[1] = "char" -> <<"c", ",">>
      [] T[1] \in {"string", "string_view", "char_array"} -> << <<>>, <<"h", "i">> >>
      [] T[1] = "vector" -> << <<>>, FewSeq(T[2]) >>
      [] IsNullableType(T) -> << <<>>, <<FewSeq(T[2])[2]>> >>
      [] IsClass(T) ->
           LET F == ClassFields(T[1])
               Pick(i) == [k \in 1..Len(F) |-> FewSeq(F[k][2])[i]]
           IN  << <<Pick(1), <<>>, <<>>>>,
                  <<Pick(2),
                    IF T[1] = "IterableAggregate" THEN <<7, 120>> ELSE <<>>,
                    IF T[1] = "HandleAggregate" THEN <<120>> ELSE <<>>>> >>

Range(f) == {f[i] : i \in DOMAIN f}

SeqsUpTo(S, k) == UNION {[1..j -> S] : j \in 0..k}

RECURSIVE ValuesOf(_), Tuples(_)
ValuesOf(T) ==
    CASE T[1] = "int" -> IntValues
      [] T[1] = "bool" -> BOOLEAN
      [] T[1] = "char" -> CharValues
      [] T[1] \in {"string", "string_view", "char_array"} -> TextValues
      [] T[1] = "vector" -> SeqsUpTo(Range(FewSeq(T[2])), MaxLen)
      [] IsNullableType(T) -> {<<>>} \cup {<<x>> : x \in Range(FewSeq(T[2]))}
      [] IsClass(T) ->
           LET F == ClassFields(T[1])
           IN  {<<f, e, t>> :
                  f \in Tuples([k \in 1..Len(F) |-> F[k][2]]),
                  e \in (IF T[1] = "IterableAggregate"
                         THEN SeqsUpTo({7, 120}, MaxLen) ELSE {<<>>}),
                  t \in (IF T[1] = "HandleAggregate"
                         THEN {<<>>, <<7>>, <<120>>} ELSE {<<>>})}

\* the tuples of values of a tuple of types
Tuples(Ts) ==
    IF Ts = <<>> THEN {<<>>}
    ELSE {<<x>> \o r : x \in ValuesOf(Head(Ts)), r \in Tuples(Tail(Ts))}

\* the field names given to a top-level call: none, or "nm"
Names == {<<>>, <<"n", "m">>}

(***************************************************************************)
(* Effects                                                                 *)
(*   <<"enter", T, n>>    print<T> is entered with name n                   *)
(*   <<"call", f, T>>     print<T> calls the strategy f                     *)
(*   <<"put", r, text>>   one operator<< of text on the stream r            *)
(*   <<"setf", r, b>>     operator<< of std::boolalpha / std::noboolalpha   *)
(*   <<"putbool", r, b>>  operator<< of a bool                              *)
(*   <<"ret">>            print<T> returns                                  *)
(* r is "os", the stream the call was given, or "cout", std::cout.          *)
(***************************************************************************)

Enter(T, n) == <<"enter", T, n>>
CallOf(f, T) == <<"call", f, T>>
Put(r, text) == <<"put", r, text>>
SetBoolalpha(r, b) == <<"setf", r, b>>
PutBool(r, b) == <<"putbool", r, b>>
Ret == <<"ret">>

(***************************************************************************)
(* The writer                                                              *)
(***************************************************************************)

RECURSIVE print(_, _, _)

\* print_default with the bool overload left out: a bool goes through
\* os << v like any other value
print_default_no_bool_overload(T, v) ==
    IF T[1] = "bool" THEN <<PutBool("os", v)>>
    ELSE IF is_convertible_to_string_view(T)
    THEN <<Put("os", <<Quote>>), Put("os", v), Put("os", <<Quote>>)>>
    ELSE <<Put("os", IF T[1] = "int" THEN IntText(v) ELSE <<v>>)>>

\* print_default(os, v), both overloads
print_default(T, v) ==
    IF T[1] = "bool"
    THEN <<SetBoolalpha("os", TRUE), PutBool("os", v), SetBoolalpha("os", FALSE)>>
    ELSE IF is_convertible_to_string_view(T)
    THEN <<Put("os", <<Quote>>), Put("os", v), Put("os", <<Quote>>)>>
    ELSE <<Put("os", IF T[1] = "int" THEN IntText(v) ELSE <<v>>)>>

\* what the range-for of print_container visits
Elements(T, v) == IF IsClass(T) THEN v[2] ELSE v

ElemType(T) ==
    CASE T[1] = "vector" -> T[2]
      [] T[1] \in {"string", "string_view"} -> <<"char">>
      [] IsClass(T) -> ClassElemType(T[1])

RECURSIVE ForEach(_, _)
\* the body of the range-for of print_container, for each element in order
ForEach(E, xs) ==
    IF xs = <<>> THEN <<>>
    ELSE print(E, Head(xs), <<>>) \o <<Put("cout", <<",">>)>> \o ForEach(E, Tail(xs))

print_container(T, v) ==
    <<Put("cout", <<"[">>)>>
    \o ForEach(ElemType(T), Elements(T, v))
    \o <<Put("cout", <<Backspace>>), Put("cout", <<"]">>)>>

\* makeNullValue with the null pointer for every type
makeNullValue_always_nullptr(T) == "nullptr"

makeNullValue(T) == IF is_assignable_nullopt(T) THEN "nullopt" ELSE "nullptr"

\* v == s for the sentinel s: an optional equals nullopt when it holds no
\* value, a pointer or smart pointer equals nullptr when it is null
EqualsSentinel(T, v, s) == IF IsClass(T) THEN v[3] = <<>> ELSE v = <<>>

\* *v
Deref(T, v) == IF IsClass(T) THEN v[3][1] ELSE v[1]

TargetType(T) == IF IsClass(T) THEN ClassTargetType(T[1]) ELSE T[2]

\* print_pointer handing a name on to the print of the pointee
print_pointer_named(T, v) ==
    IF EqualsSentinel(T, v, makeNullValue(T))
    THEN <<Put("cout", <<"n", "u", "l", "l">>)>>
    ELSE print(TargetType(T), Deref(T, v), <<"v">>)

print_pointer(T, v) ==
    IF EqualsSentinel(T, v, makeNullValue(T))
    THEN <<Put("cout", <<"n", "u", "l", "l">>)>>
    ELSE print(TargetType(T), Deref(T, v), <<>>)

\* Writer: operator<<(Writer&, Nvp<T>) and operator<<(Writer&, const T&)
WriterNvp(T, v, n) == print(T, v, n)
WriterValue(T, v) == print(T, v, <<>>)

RECURSIVE SerializeFields(_, _, _)
\* writer << makeNvp(name, field) << ',' << makeNvp(name, field) ...
SerializeFields(F, fs, k) ==
    IF k > Len(F) THEN <<>>
    ELSE (IF k > 1 THEN WriterValue(<<"char">>, ",") ELSE <<>>)
         \o WriterNvp(F[k][2], fs[k], F[k][1])
         \o SerializeFields(F, fs, k + 1)

\* v.serialize(writer)
serialize(T, v) == SerializeFields(ClassFields(T[1]), v[1], 1)

\* the chain without the std::is_pointer_v test: a raw pointer falls through
Classify_without_is_pointer(T) ==
    IF is_container(T) /\ ~is_convertible_to_string(T) THEN "print_container"
    ELSE IF is_pointer_like(T) THEN "print_pointer"
    ELSE IF has_member_function_serialize(T) THEN "serialize"
    ELSE "print_default"

\* the chain with the serialize test moved to the front
Classify_serialize_first(T) ==
    IF has_member_function_serialize(T) THEN "serialize"
    ELSE IF is_container(T) /\ ~is_convertible_to_string(T) THEN "print_container"
    ELSE IF is_pointer_like(T) \/ is_pointer(T) THEN "print_pointer"
    ELSE "print_default"

\* the if constexpr chain of print
Classify(T) ==
    IF is_container(T) /\ ~is_convertible_to_string(T) THEN "print_container"
    ELSE IF is_pointer_like(T) \/ is_pointer(T) THEN "print_pointer"
    ELSE IF has_member_function_serialize(T) THEN "serialize"
    ELSE "print_default"

\* if (!n.empty()) std::cout << '\"' << n << '\"' << ':';
Label(n) ==
    IF n # <<>>
    THEN <<Put("cout", <<Quote>>), Put("cout", n), Put("cout", <<Quote>>),
           Put("cout", <<":">>)>>
    ELSE <<>>

Body(f, T, v) ==
    CASE f = "print_container" -> print_container(T, v)
      [] f = "print_pointer" -> print_pointer(T, v)
      [] f = "serialize" ->
           WriterValue(<<"char">>, "{") \o serialize(T, v) \o WriterValue(<<"char">>, "}")
      [] f = "print_default" -> print_default(T, v)

print(T, v, n) ==
    <<Enter(T, n)>> \o Label(n) \o <<CallOf(Classify(T), T)>>
    \o Body(Classify(T), T, v) \o <<Ret>>

(***************************************************************************)
(* Sessions: calls of print in progress, each on the stream it was given   *)
(***************************************************************************)

\* std::cout and two other streams (two std::ostringstream objects)
Sinks == {"cout", "s1", "s2"}

Sessions == {1, 2}

\* what every stream holds before the calls (earlier output)
PriorText == <<"#">>

TypeOK ==
    /\ DOMAIN sink = Sinks
    /\ boolalpha \in [Sinks -> BOOLEAN]
    /\ os \in [Sessions -> Sinks \cup {"none"}]
    /\ badbit \in [Sinks -> BOOLEAN]
    /\ exceptions \in [Sinks -> BOOLEAN]
    /\ pc \in [Sessions -> {"idle", "run", "done", "thrown"}]
    /\ failpos \in [Sessions -> Nat]
    /\ depth \in [Sessions -> Nat]

\* no EmployeesDb object exists yet; generateId has not been called
NoDb ==
    /\ mEmployees = <<>>
    /\ mNameLookup = <<>>
    /\ mIdLookup = <<>>
    /\ generateId_id = 1
    /\ dbpc = "none"
    /\ call = <<"none">>
    /\ log = {}

\* the streams are good and hold the earlier output, no call has begun
InitStreams ==
    /\ sink = [k \in Sinks |-> PriorText]
    /\ boolalpha = [k \in Sinks |-> FALSE]
    /\ badbit = [k \in Sinks |-> FALSE]
    /\ os = [s \in Sessions |-> "none"]
    /\ arg = [s \in Sessions |-> <<>>]
    /\ todo = [s \in Sessions |-> <<>>]
    /\ pc = [s \in Sessions |-> "idle"]
    /\ depth = [s \in Sessions |-> 0]
    /\ mark = [s \in Sessions |-> [os |-> 0, cout |-> 0]]
    /\ failpos = [s \in Sessions |-> 0]

\* no stream throws on failure (the default exception mask of a stream)
Init ==
    /\ InitStreams
    /\ exceptions = [k \in Sinks |-> FALSE]
    /\ NoDb

\* the stream an effect of session s acts on
StreamOf(s, r) == IF r = "cout" THEN "cout" ELSE os[s]

\* A caller calls print(k, v, n) for a value v of type T. Calls in progress at
\* the same time are on distinct streams.
StartCall(s, k, T, v, n) ==
    /\ pc[s] = "idle"
    /\ \A t \in Sessions \ {s} : pc[t] = "run" => os[t] # k
    /\ os' = [os EXCEPT ![s] = k]
    /\ arg' = [arg EXCEPT ![s] = <<T, v, n>>]
    /\ todo' = [todo EXCEPT ![s] = print(T, v, n)]
    /\ pc' = [pc EXCEPT ![s] = "run"]
    /\ mark' = [mark EXCEPT ![s] = [os |-> Len(sink[k]), cout |-> Len(sink["cout"])]]
    /\ UNCHANGED <<sink, boolalpha, badbit, exceptions, depth, failpos, dbvars>>

Running(s, kind) ==
    /\ pc[s] = "run"
    /\ todo[s] # <<>>
    /\ Head(todo[s])[1] = kind

Pop(s) == todo' = [todo EXCEPT ![s] = Tail(todo[s])]

DoEnter(s) ==
    /\ Running(s, "enter")
    /\ depth' = [depth EXCEPT ![s] = depth[s] + 1]
    /\ Pop(s)
    /\ UNCHANGED <<sink, boolalpha, os, arg, pc, mark, badbit, exceptions, failpos, dbvars>>

DoCall(s) ==
    /\ Running(s, "call")
    /\ Pop(s)
    /\ UNCHANGED <<sink, boolalpha, os, arg, pc, depth, mark, badbit, exceptions, failpos, dbvars>>

\* The streams after k << text: the text is appended, unless the stream is in
\* a failed state, and then nothing is written.
Inserted(k, text) ==
    IF badbit[k] THEN sink ELSE [sink EXCEPT ![k] = sink[k] \o text]

\* DoPut on a stream that acts on the backspace character by dropping the
\* character before it
DoPut_backspace_erases(s) ==
    /\ Running(s, "put")
    /\ LET e == Head(todo[s])
           k == StreamOf(s, e[2])
       IN  sink' = IF badbit[k] THEN sink
                   ELSE [sink EXCEPT ![k] =
                            IF e[3] = <<Backspace>> /\ sink[k] # <<>>
                            THEN SubSeq(sink[k], 1, Len(sink[k]) - 1)
                            ELSE sink[k] \o e[3]]
    /\ Pop(s)
    /\ UNCHANGED <<boolalpha, os, arg, pc, depth, mark, badbit, exceptions, failpos, dbvars>>

DoPut(s) ==
    /\ Running(s, "put")
    /\ LET e == Head(todo[s])
           k == StreamOf(s, e[2])
       IN  sink' = Inserted(k, e[3])
    /\ Pop(s)
    /\ UNCHANGED <<boolalpha, os, arg, pc, depth, mark, badbit, exceptions, failpos, dbvars>>

DoSetf(s) ==
    /\ Running(s, "setf")
    /\ LET e == Head(todo[s])
       IN  boolalpha' = [boolalpha EXCEPT ![StreamOf(s, e[2])] = e[3]]
    /\ Pop(s)
    /\ UNCHANGED <<sink, os, arg, pc, depth, mark, badbit, exceptions, failpos, dbvars>>

DoPutBool(s) ==
    /\ Running(s, "putbool")
    /\ LET e == Head(todo[s])
           k == StreamOf(s, e[2])
       IN  sink' = Inserted(k, BoolText(e[3], boolalpha[k]))
    /\ Pop(s)
    /\ UNCHANGED <<boolalpha, os, arg, pc, depth, mark, badbit, exceptions, failpos, dbvars>>

DoRet(s) ==
    /\ Running(s, "ret")
    /\ depth' = [depth EXCEPT ![s] = depth[s] - 1]
    /\ Pop(s)
    /\ pc' = [pc EXCEPT ![s] = IF Tail(todo[s]) = <<>> THEN "done" ELSE "run"]
    /\ UNCHANGED <<sink, boolalpha, os, arg, mark, badbit, exceptions, failpos, dbvars>>

\* A write of session s on a stream fails: the stream sets its badbit and
\* writes nothing. A stream whose exception mask has the bit throws, and the
\* exception, which no function of the writer catches, leaves every frame of
\* the call; otherwise operator<< returns and the call goes on.
FailWrite(s) ==
    /\ Running(s, "put") \/ Running(s, "putbool")
    /\ LET k == StreamOf(s, Head(todo[s])[2])
       IN  /\ ~badbit[k]
           /\ badbit' = [badbit EXCEPT ![k] = TRUE]
           /\ failpos' = [failpos EXCEPT ![s] = Len(todo[s])]
           /\ IF exceptions[k]
              THEN /\ pc' = [pc EXCEPT ![s] = "thrown"]
                   /\ todo' = [todo EXCEPT ![s] = <<>>]
                   /\ depth' = [depth EXCEPT ![s] = 0]
              ELSE /\ Pop(s)
                   /\ UNCHANGED <<pc, depth>>
    /\ UNCHANGED <<sink, boolalpha, exceptions, os, arg, mark, dbvars>>

\* One call of print, on std::cout or on another stream, of any input.
Next ==
    \/ /\ pc[1] = "idle"
       /\ \E k \in {"cout", "s1"}, T \in Types, n \in Names :
            \E v \in ValuesOf(T) : StartCall(1, k, T, v, n)
    \/ DoEnter(1)
    \/ DoCall(1)
    \/ DoPut(1)
    \/ DoSetf(1)
    \/ DoPutBool(1)
    \/ DoRet(1)

Spec == Init /\ [][Next]_vars

\* The calls drawn when two calls run at the same time.
ConcCalls ==
    {<<<<"int">>, 7, <<"n", "m">>>>,
     <<<<"bool">>, TRUE, <<>>>>,
     <<<<"vector", <<"int">>>>, <<7>>, <<>>>>,
     <<<<"optional", <<"int">>>>, <<>>, <<>>>>}

\* Two callers, each calling print on a stream of its own, their steps
\* interleaved in any order.
NextConc ==
    \E s \in Sessions :
        \/ /\ pc[s] = "idle"
           /\ \E k \in Sinks, c \in ConcCalls : StartCall(s, k, c[1], c[2], c[3])
        \/ DoEnter(s)
        \/ DoCall(s)
        \/ DoPut(s)
        \/ DoSetf(s)
        \/ DoPutBool(s)
        \/ DoRet(s)

SpecConc == Init /\ [][NextConc]_vars

\* The calls drawn when a write may fail.
FailCalls ==
    {<<<<"int">>, 7, <<"n", "m">>>>,
     <<<<"bool">>, TRUE, <<>>>>,
     <<<<"vector", <<"int">>>>, <<7, 120>>, <<>>>>,
     <<<<"Foo">>, <<<<7, <<"a">>>>, <<>>, <<>>>>, <<>>>>}

\* any exception mask for each stream
InitFail ==
    /\ InitStreams
    /\ exceptions \in [Sinks -> BOOLEAN]
    /\ NoDb

\* One call of print in which any write may fail.
NextFail ==
    \/ /\ pc[1] = "idle"
       /\ \E k \in {"cout", "s1"}, c \in FailCalls : StartCall(1, k, c[1], c[2], c[3])
    \/ DoEnter(1)
    \/ DoCall(1)
    \/ DoPut(1)
    \/ DoSetf(1)
    \/ DoPutBool(1)
    \/ DoRet(1)
    \/ FailWrite(1)

SpecFail == InitFail /\ [][NextFail]_vars

(***************************************************************************)
(* EmployeesDb (examples/EmployeeDb/src/EmployeesDb.cpp)                   *)
(*                                                                         *)
(* An EmployeeRecord is a record [name, position, age, salary, id].        *)
(* mEmployees is the vector of records; an index or iterator into it is    *)
(* counted from 0 as in the source, so index i is mEmployees[i + 1] and    *)
(* end() is Len(mEmployees). mNameLookup and mIdLookup are functions on    *)
(* the keys they hold.                                                     *)
(***************************************************************************)

\* Longest list given to the constructor.
MaxList == 2

\* Most records the database is made to hold.
MaxRecords == 2

\* Largest id generateId is made to give.
MaxId == 3

\* enum class Profession, in the order of its enumerators
Profession == <<"ENGINEER", "DOCTOR", "LAWYER">>

Professions == {Profession[i] : i \in 1..Len(Profession)}

\* the value of an enumerator, which operator< compares
PositionValue(p) == (CHOOSE i \in 1..Len(Profession) : Profession[i] = p) - 1

EmployeeNames == {"ann", "bob", "cy"}

Salaries == {5000}

Ages == {40}

\* EmployeeRecord(name, position, age, salary): the id is 0
EmployeeRecord(name, position, age, salary) ==
    [name |-> name, position |-> position, age |-> age, salary |-> salary, id |-> 0]

\* the records a caller passes
Inputs ==
    {EmployeeRecord(n, p, a, w) :
        n \in EmployeeNames, p \in Professions, a \in Ages, w \in Salaries}

\* the empty unordered_map
EmptyMap == <<>>

\* m.emplace(k, v): no effect when the key is there
Emplace(m, k, v) ==
    IF k \in DOMAIN m THEN m
    ELSE [x \in DOMAIN m \cup {k} |-> IF x = k THEN v ELSE m[x]]

\* m.erase(k)
Erase(m, k) == IF DOMAIN m \ {k} = {} THEN EmptyMap ELSE [x \in DOMAIN m \ {k} |-> m[x]]

\* the outcomes of the two std::partition calls of the constructor: the
\* records of the list in some order with the engineers first, the doctors
\* next and the others last (std::partition keeps no relative order)
Partitions(list) ==
    LET n == Len(list)
        Perms == {f \in [1..n -> 1..n] : \A i, j \in 1..n : i # j => f[i] # f[j]}
        Grouped(c) ==
            \A i, j \in 1..n :
                (i < j) =>
                    /\ c[j].position = "ENGINEER" => c[i].position = "ENGINEER"
                    /\ c[j].position = "DOCTOR" => c[i].position \in {"ENGINEER", "DOCTOR"}
    IN  {c \in {[i \in 1..n |-> list[f[i]]] : f \in Perms} : Grouped(c)}

\* WithIds numbering the records of every database from 1
WithIds_from_one(c, first) == [i \in 1..Len(c) |-> [c[i] EXCEPT !.id = i]]

\* WithIds giving every record the same id
WithIds_one_id(c, first) == [i \in 1..Len(c) |-> [c[i] EXCEPT !.id = first]]

\* generateNameLookup, the ids: every record in order gets the next id of
\* generateId, whose counter is first when the loop begins
WithIds(c, first) == [i \in 1..Len(c) |-> [c[i] EXCEPT !.id = first + i - 1]]

RECURSIVE EmplaceAll(_, _, _)
\* m after emplace(Key(e), Val(e, i)) for the entries of c from index i on
EmplaceAll(m, c, i) ==
    IF i > Len(c) THEN m
    ELSE EmplaceAll(Emplace(m, c[i][1], c[i][2]), c, i + 1)

\* generateNameLookup, the map: cleared, then emplace(e.name, e.id) in order
generateNameLookup(c) ==
    EmplaceAll(EmptyMap, [i \in 1..Len(c) |-> <<c[i].name, c[i].id>>], 1)

\* generateIdLookup with positions counted from 1
generateIdLookup_from_one(c) ==
    EmplaceAll(EmptyMap, [i \in 1..Len(c) |-> <<c[i].id, i>>], 1)

\* generateIdLookup: cleared, then emplace(mEmployees[i].id, i) in order
generateIdLookup(c) ==
    EmplaceAll(EmptyMap, [i \in 1..Len(c) |-> <<c[i].id, i - 1>>], 1)

RECURSIVE upper_bound(_, _, _, _)
\* std::upper_bound(first, first + len, pos, pos < e.position): the halving
\* search of the library, as an index
upper_bound(c, pos, first, len) ==
    IF len <= 0 THEN first
    ELSE LET half == len \div 2
             mid == first + half
         IN  IF PositionValue(pos) < PositionValue(c[mid + 1].position)
             THEN upper_bound(c, pos, first, half)
             ELSE upper_bound(c, pos, mid + 1, len - half - 1)

RECURSIVE lower_bound(_, _, _, _)
\* std::lower_bound(first, first + len, pos, e.position < pos)
lower_bound(c, pos, first, len) ==
    IF len <= 0 THEN first
    ELSE LET half == len \div 2
             mid == first + half
         IN  IF PositionValue(c[mid + 1].position) < PositionValue(pos)
             THEN lower_bound(c, pos, mid + 1, len - half - 1)
             ELSE lower_bound(c, pos, first, half)

\* v.insert(v.begin() + i, e) and v.erase(v.begin() + i)
InsertAt(c, i, e) == SubSeq(c, 1, i) \o <<e>> \o SubSeq(c, i + 1, Len(c))
EraseAt(c, i) == SubSeq(c, 1, i) \o SubSeq(c, i + 2, Len(c))

\* EmployeesDb() = default: an empty database
DefaultConstruct ==
    /\ dbpc # "ub"
    /\ mEmployees' = <<>>
    /\ mNameLookup' = EmptyMap
    /\ mIdLookup' = EmptyMap
    /\ dbpc' = "fresh"
    /\ call' = <<"EmployeesDb">>
    /\ log' = {}
    /\ UNCHANGED <<generateId_id, writervars>>

\* EmployeesDb(employees): a new database object made from a list
Construct(employees) ==
    /\ dbpc # "ub"
    /\ generateId_id + Len(employees) <= MaxId + 1
    /\ \E c \in Partitions(employees) :
          LET e == WithIds(c, generateId_id)
          IN  /\ mEmployees' = e
              /\ mNameLookup' = generateNameLookup(e)
              /\ mIdLookup' = generateIdLookup(e)
    /\ generateId_id' = generateId_id + Len(employees)
    /\ dbpc' = IF employees = <<>> THEN "fresh" ELSE "live"
    /\ call' = <<"EmployeesDb", employees>>
    /\ log' = {}
    /\ UNCHANGED writervars

\* insert(data). dbpc stays "fresh" as long as the database began empty and
\* every insert was of a new name, and log then holds what the inserts
\* returned. An index past the end of the vector is undefined behaviour.
insert(data) ==
    /\ dbpc \in {"fresh", "live"}
    /\ IF data.name \notin DOMAIN mNameLookup
       THEN /\ Len(mEmployees) < MaxRecords
            /\ generateId_id <= MaxId
            /\ LET it2 == upper_bound(mEmployees, data.position, 0, Len(mEmployees))
                   id == generateId_id
                   e == InsertAt(mEmployees, it2, [data EXCEPT !.id = id])
               IN  /\ mNameLookup' = Emplace(mNameLookup, data.name, id)
                   /\ mEmployees' = e
                   /\ mIdLookup' = generateIdLookup(e)
                   /\ generateId_id' = id + 1
                   /\ call' = <<"insert", data, id>>
                   /\ log' = IF dbpc = "fresh" THEN log \cup {<<id, data>>} ELSE {}
                   /\ UNCHANGED dbpc
       ELSE LET index == mNameLookup[data.name]
            IN  IF index < Len(mEmployees)
                THEN LET id == mEmployees[index + 1].id
                     IN  /\ mEmployees' = [mEmployees EXCEPT
                                             ![index + 1] = [data EXCEPT !.id = id]]
                         /\ call' = <<"insert", data, id>>
                         /\ dbpc' = "live"
                         /\ log' = {}
                         /\ UNCHANGED <<mNameLookup, mIdLookup, generateId_id>>
                ELSE /\ dbpc' = "ub"
                     /\ call' = <<"insert", data>>
                     /\ log' = {}
                     /\ UNCHANGED <<mEmployees, mNameLookup, mIdLookup, generateId_id>>
    /\ UNCHANGED writervars

\* Removed leaving mIdLookup as it was but for the erased id
Removed_stale_ids(id) ==
    IF id \in DOMAIN mIdLookup
    THEN LET index == mIdLookup[id]
             e == EraseAt(mEmployees, index)
         IN  [employees |-> e,
              names |-> Erase(mNameLookup, mEmployees[index + 1].name),
              ids |-> Erase(mIdLookup, id)]
    ELSE [employees |-> mEmployees, names |-> mNameLookup, ids |-> mIdLookup]

\* the members after remove(id)
Removed(id) ==
    IF id \in DOMAIN mIdLookup
    THEN LET index == mIdLookup[id]
             e == EraseAt(mEmployees, index)
         IN  [employees |-> e,
              names |-> Erase(mNameLookup, mEmployees[index + 1].name),
              ids |-> generateIdLookup(e)]
    ELSE [employees |-> mEmployees, names |-> mNameLookup, ids |-> mIdLookup]

\* remove(uint64_t id)
remove_id(id) ==
    /\ dbpc \in {"fresh", "live"}
    /\ mEmployees' = Removed(id).employees
    /\ mNameLookup' = Removed(id).names
    /\ mIdLookup' = Removed(id).ids
    /\ dbpc' = "live"
    /\ call' = <<"remove_id", id>>
    /\ log' = {}
    /\ UNCHANGED <<generateId_id, writervars>>

\* remove(const std::string& name)
remove_name(name) ==
    /\ dbpc \in {"fresh", "live"}
    /\ IF name \in DOMAIN mNameLookup
       THEN /\ mEmployees' = Removed(mNameLookup[name]).employees
            /\ mNameLookup' = Removed(mNameLookup[name]).names
            /\ mIdLookup' = Removed(mNameLookup[name]).ids
       ELSE UNCHANGED <<mEmployees, mNameLookup, mIdLookup>>
    /\ dbpc' = "live"
    /\ call' = <<"remove_name", name>>
    /\ log' = {}
    /\ UNCHANGED <<generateId_id, writervars>>

\* end(), find(uint64_t id), find(const std::string& name), size()
end == Len(mEmployees)

find_id(id) == IF id \in DOMAIN mIdLookup THEN mIdLookup[id] ELSE end

find_name(name) ==
    IF name \in DOMAIN mNameLookup /\ mNameLookup[name] \in DOMAIN mIdLookup
    THEN mIdLookup[mNameLookup[name]]
    ELSE end

size == Len(mEmployees)

\* range(db, position): the pair of iterators
range(position) ==
    <<lower_bound(mEmployees, position, 0, Len(mEmployees)),
      upper_bound(mEmployees, position, 0, Len(mEmployees))>>

\* a database object exists and no operation on it was undefined
Alive == dbpc \in {"fresh", "live"}

\* the record an iterator other than end() refers to
At(it) == mEmployees[it + 1]

\* the iterators of the half-open range [from, to)
Iterators(from, to) == {i \in 0..(Len(mEmployees) - 1) : from <= i /\ i < to}

\* A program that makes databases and inserts and removes records.
NextDb ==
    \/ DefaultConstruct
    \/ \E employees \in SeqsUpTo(Inputs, MaxList) : Construct(employees)
    \/ \E data \in Inputs : insert(data)
    \/ \E id \in 1..MaxId : remove_id(id)
    \/ \E name \in EmployeeNames : remove_name(name)

SpecDb == Init /\ [][NextDb]_vars

(***************************************************************************)
(* The statistics of EmployeesDb.cpp. Each is a function of the database   *)
(* that changes nothing; the action of a call records what it returned in  *)
(* call. A call that divides by zero or reads outside a range is undefined *)
(* behaviour and returns nothing.                                          *)
(***************************************************************************)

\* the salaries of StatsTest::SetUp used as inputs
StatSalaries == {1000, 3400, 8000}

StatInputs ==
    {EmployeeRecord(n, p, a, w) :
        n \in EmployeeNames, p \in Professions, a \in Ages, w \in StatSalaries}

RECURSIVE accumulate(_, _, _)
\* std::accumulate(first, last, init, s + e.salary)
accumulate(first, last, init) ==
    IF first >= last THEN init
    ELSE accumulate(first + 1, last, init + mEmployees[first + 1].salary)

\* std::distance(r.first, r.second)
distance(r) == r[2] - r[1]

\* the value std::nth_element leaves at position nth of the values a: the
\* one a sorted a has there
nth_element(a, nth) ==
    CHOOSE x \in {a[i] : i \in 1..Len(a)} :
        /\ Cardinality({i \in 1..Len(a) : a[i] < x}) <= nth
        /\ Cardinality({i \in 1..Len(a) : a[i] <= x}) > nth

\* std::minmax_element(first, last, by salary): the first smallest and the
\* last largest element, as iterators
minmax_element(first, last) ==
    LET I == Iterators(first, last)
        lo == CHOOSE i \in I :
                  \A j \in I : \/ At(i).salary < At(j).salary
                               \/ At(i).salary = At(j).salary /\ i <= j
        hi == CHOOSE i \in I :
                  \A j \in I : \/ At(j).salary < At(i).salary
                               \/ At(i).salary = At(j).salary /\ j <= i
    IN  <<lo, hi>>

\* what a call leaves when its behaviour is undefined
Undefined(f, position) ==
    /\ dbpc' = "ub"
    /\ call' = <<f, position>>

Returns(f, position, value) ==
    /\ dbpc' = dbpc
    /\ call' = <<f, position, value>>

minMaxSalaryPerPosition(position) ==
    /\ Alive
    /\ LET r == range(position)
       IN  IF distance(r) <= 0
           THEN Undefined("minMaxSalaryPerPosition", position)
           ELSE LET minMax == minmax_element(r[1], r[2])
                IN  Returns("minMaxSalaryPerPosition", position,
                            <<At(minMax[1]), At(minMax[2])>>)
    /\ UNCHANGED <<mEmployees, mNameLookup, mIdLookup, generateId_id, log, writervars>>

avgSalaryPerPosition(position) ==
    /\ Alive
    /\ LET r == range(position)
           totalSalary == accumulate(r[1], r[2], 0)
           noOfEmployees == distance(r)
       IN  IF noOfEmployees <= 0
           THEN Undefined("avgSalaryPerPosition", position)
           ELSE Returns("avgSalaryPerPosition", position, totalSalary \div noOfEmployees)
    /\ UNCHANGED <<mEmployees, mNameLookup, mIdLookup, generateId_id, log, writervars>>

medianSalaryPerPosition(position) ==
    /\ Alive
    /\ LET r == range(position)
           noOfEmployees == distance(r)
           salaries == [i \in 1..noOfEmployees |-> mEmployees[r[1] + i].salary]
       IN  IF noOfEmployees <= 0
           THEN Undefined("medianSalaryPerPosition", position)
           ELSE Returns("medianSalaryPerPosition", position,
                        nth_element(salaries, Len(salaries) \div 2))
    /\ UNCHANGED <<mEmployees, mNameLookup, mIdLookup, generateId_id, log, writervars>>

\* the outcomes of nth_element, sort and the reversed copy of
\* topNSalariesPerPosition: n records of the range, by non-increasing salary,
\* none of the others having a greater salary than the last of them (which
\* of several records of equal salary come, and in what order, is left open
\* by nth_element and sort)
TopN(r, n) ==
    LET I == Iterators(r[1], r[2])
    IN  {t \in [1..n -> I] :
            /\ \A i, j \in 1..n : i < j => /\ t[i] # t[j]
                                           /\ At(t[i]).salary >= At(t[j]).salary
            /\ \A i \in 1..n : \A k \in I \ {t[j] : j \in 1..n} :
                  At(k).salary <= At(t[i]).salary}

topNSalariesPerPosition(position, n) ==
    /\ Alive
    /\ LET r == range(position)
       IN  IF distance(r) < n
           THEN Undefined("topNSalariesPerPosition", <<position, n>>)
           ELSE \E t \in TopN(r, n) :
                   Returns("topNSalariesPerPosition", <<position, n>>,
                           [i \in 1..n |-> At(find_id(At(t[i]).id))])
    /\ UNCHANGED <<mEmployees, mNameLookup, mIdLookup, generateId_id, log, writervars>>

\* A program that makes a database, inserts records and asks for statistics.
NextStats ==
    \/ \E employees \in SeqsUpTo(StatInputs, MaxList) : Construct(employees)
    \/ \E data \in StatInputs : insert(data)
    \/ \E position \in Professions :
          \/ minMaxSalaryPerPosition(position)
          \/ avgSalaryPerPosition(position)
          \/ medianSalaryPerPosition(position)
          \/ \E n \in 0..MaxRecords : topNSalariesPerPosition(position, n)

SpecStats == Init /\ [][NextStats]_vars

(***************************************************************************)
(* Reading a state                                                         *)
(***************************************************************************)

Done(s) == pc[s] = "done"
ArgT(s) == arg[s][1]
ArgV(s) == arg[s][2]
ArgN(s) == arg[s][3]

\* what stream k has received since the call of session s began
Appended(s, k) ==
    LET from == IF k = os[s] THEN mark[s].os ELSE mark[s].cout
    IN  SubSeq(sink[k], from + 1, Len(sink[k]))

RECURSIVE Flat(_, _, _)
\* the texts parts[lo], ..., parts[hi] one after the other
Flat(parts, lo, hi) ==
    IF lo > hi THEN <<>>
    ELSE IF lo = hi THEN parts[lo]
    ELSE LET m == (lo + hi) \div 2
         IN  Flat(parts, lo, m) \o Flat(parts, m + 1, hi)

\* the text that the effects E, played alone and in order, write to the
\* streams named in roles, the boolalpha flag being a when they start
Written(E, roles, a) ==
    LET FlagAt(i) ==
            LET S == {j \in 1..(i - 1) : E[j][1] = "setf"}
            IN  IF S = {} THEN a
                ELSE E[CHOOSE j \in S : \A j2 \in S : j2 <= j][3]
        Piece(i) ==
            CASE E[i][1] = "put" /\ E[i][2] \in roles -> E[i][3]
              [] E[i][1] = "putbool" /\ E[i][2] \in roles -> BoolText(E[i][3], FlagAt(i))
              [] OTHER -> <<>>
    IN  Flat([i \in 1..Len(E) |-> Piece(i)], 1, Len(E))

\* the roles that stand for the stream the call of session s was given
RolesOf(s) == IF os[s] = "cout" THEN {"os", "cout"} ELSE {"os"}

\* what print(os, v, n) for a value v of type T, run alone, appends to the
\* stream it is given, when that stream is the one session s was given
Emitted(s, T, v, n) == Written(print(T, v, n), RolesOf(s), FALSE)

\* what the effects E, played alone by session s, append to stream k
TextOn(s, k, E) ==
    IF k = os[s] THEN Written(E, RolesOf(s), FALSE)
    ELSE IF k = "cout" THEN Written(E, {"cout"}, FALSE)
    ELSE <<>>

\* what the call of session s, run alone, appends to stream k
AloneText(s, k) == TextOn(s, k, print(ArgT(s), ArgV(s), ArgN(s)))

\* how many effects of E are of the kind
Count(E, kind) == Cardinality({i \in 1..Len(E) : E[i][1] = kind})

RECURSIVE Joined(_, _)
\* the texts of parts in order, sep between two neighbours
Joined(parts, sep) ==
    IF parts = <<>> THEN <<>>
    ELSE IF Len(parts) = 1 THEN parts[1]
    ELSE parts[1] \o sep \o Joined(Tail(parts), sep)

\* the label "name":
LabelText(n) == IF n = <<>> THEN <<>> ELSE <<Quote>> \o n \o <<Quote, ":">>

(***************************************************************************)
(* C1: classification is total and deterministic with a fixed priority.    *)
(* Every print frame calls exactly one strategy, and the strategy called   *)
(* for a type is the first one the type qualifies for in the order         *)
(* Sequence, NullableReference, SelfDescribing, Scalar; a type that is     *)
(* both a sequence and self-describing goes to the sequence strategy and a *)
(* nullable around a sequence to the nullable strategy.                    *)
(***************************************************************************)
Priority == <<"print_container", "print_pointer", "serialize", "print_default">>

Qualifies(T, f) ==
    CASE f = "print_container" -> is_container(T) /\ ~is_convertible_to_string(T)
      [] f = "print_pointer" -> is_pointer_like(T) \/ is_pointer(T)
      [] f = "serialize" -> has_member_function_serialize(T)
      [] f = "print_default" -> TRUE

C1_FirstMatchWins ==
    \A s \in Sessions :
        /\ Running(s, "call") =>
             LET f == Head(todo[s])[2]
                 T == Head(todo[s])[3]
             IN  /\ \E i \in 1..4 :
                        /\ Priority[i] = f
                        /\ Qualifies(T, f)
                        /\ \A j \in 1..(i - 1) : ~Qualifies(T, Priority[j])
                 /\ (T[1] = "IterableAggregate") => f = "print_container"
                 /\ (IsNullableType(T) /\ T[2][1] = "vector") => f = "print_pointer"
        /\ (pc[s] = "run" /\ depth[s] = 0) =>
             /\ Count(todo[s], "call") = Count(todo[s], "enter")
             /\ Count(todo[s], "ret") = Count(todo[s], "enter")

C1_Witness ==
    \E s \in Sessions :
        /\ Running(s, "call")
        /\ Head(todo[s])[3] = <<"IterableAggregate">>
        /\ Head(todo[s])[2] = "print_container"

(***************************************************************************)
(* C2: for a non-empty sequence of length N the stream given to print      *)
(* receives an opening bracket, the N rendered elements in order with N-1  *)
(* separators between them and none after the last, and a closing bracket. *)
(***************************************************************************)
C2_SequenceText ==
    \A s \in Sessions :
        (/\ Done(s)
         /\ Classify(ArgT(s)) = "print_container"
         /\ Elements(ArgT(s), ArgV(s)) # <<>>)
        => LET xs == Elements(ArgT(s), ArgV(s))
               parts == [i \in 1..Len(xs) |-> Emitted(s, ElemType(ArgT(s)), xs[i], <<>>)]
           IN  Appended(s, os[s])
                 = LabelText(ArgN(s)) \o <<"[">> \o Joined(parts, <<",">>) \o <<"]">>

(***************************************************************************)
(* C3: for an empty sequence the stream given to print receives exactly    *)
(* the two characters [].                                                  *)
(***************************************************************************)
C3_EmptySequenceText ==
    \A s \in Sessions :
        (/\ Done(s)
         /\ Classify(ArgT(s)) = "print_container"
         /\ Elements(ArgT(s), ArgV(s)) = <<>>
         /\ ArgN(s) = <<>>)
        => Appended(s, os[s]) = <<"[", "]">>

(***************************************************************************)
(* C4: for a nullable in its empty state (null pointer, empty smart        *)
(* pointer, empty optional) the stream given to print receives the label,  *)
(* when there is a name, and then exactly null.                            *)
(***************************************************************************)
C4_EmptyNullableText ==
    \A s \in Sessions :
        (/\ Done(s)
         /\ Classify(ArgT(s)) = "print_pointer"
         /\ EqualsSentinel(ArgT(s), ArgV(s), makeNullValue(ArgT(s))))
        => Appended(s, os[s]) = LabelText(ArgN(s)) \o <<"n", "u", "l", "l">>

IsNumeral(t) ==
    /\ t # <<>>
    /\ \A i \in 1..Len(t) : t[i] \in Range(DigitChar)
    /\ Len(t) > 1 => t[1] # "0"

RECURSIVE NumeralValue(_)
NumeralValue(t) ==
    IF t = <<>> THEN 0
    ELSE 10 * NumeralValue(SubSeq(t, 1, Len(t) - 1))
         + (CHOOSE d \in 0..9 : DigitChar[d + 1] = t[Len(t)])

IsIntToken(t, i) ==
    IF i < 0
    THEN t # <<>> /\ t[1] = "-" /\ IsNumeral(Tail(t)) /\ NumeralValue(Tail(t)) = 0 - i
    ELSE IsNumeral(t) /\ NumeralValue(t) = i

C6_ScalarToken ==
    \A s \in Sessions :
        (Done(s) /\ Classify(ArgT(s)) = "print_default" /\ ArgN(s) = <<>>)
        => LET T == ArgT(s)
               v == ArgV(s)
               t == Appended(s, os[s])
           IN  /\ is_convertible_to_string_view(T) => t = <<Quote>> \o v \o <<Quote>>
               /\ T[1] = "int" => IsIntToken(t, v)
               /\ T[1] = "bool" =>
                     t = IF v THEN <<"t", "r", "u", "e">> ELSE <<"f", "a", "l", "s", "e">>
               /\ T[1] = "char" => t = <<v>>
               /\ os[s] # "cout" => Appended(s, "cout") = <<>>

C6_Witness ==
    \E s \in Sessions :
        /\ Done(s)
        /\ ArgT(s) = <<"bool">>
        /\ ArgV(s) = TRUE
        /\ ArgN(s) = <<>>
        /\ Appended(s, os[s]) = <<"t", "r", "u", "e">>

(***************************************************************************)
(* C7: no type that print_default renders as text (one convertible to a    *)
(* string view: string, string_view, character array) is given to the      *)
(* sequence strategy.                                                      *)
(***************************************************************************)
C7_TextIsNeverSequence ==
    \A s \in Sessions :
        (Running(s, "call") /\ is_convertible_to_string_view(Head(todo[s])[3]))
        => Head(todo[s])[2] # "print_container"

(***************************************************************************)
(* C8: print(value, name) appends to the stream it was given the label     *)
(* "name": and then exactly what print(value, no name) appends; with an    *)
(* empty name nothing comes before the value.                              *)
(***************************************************************************)
C8_LabelThenValue ==
    \A s \in Sessions :
        Done(s) =>
            Appended(s, os[s])
              = LabelText(ArgN(s)) \o Emitted(s, ArgT(s), ArgV(s), <<>>)

(***************************************************************************)
(* C9: for a self-describing value the stream given to print receives an   *)
(* opening brace, then everything the value's serialize writes (labels and *)
(* nested values, in its order), then a closing brace, and no other stream *)
(* receives anything.                                                      *)
(***************************************************************************)
C9_HookOnOneSink ==
    \A s \in Sessions :
        (Done(s) /\ Classify(ArgT(s)) = "serialize" /\ ArgN(s) = <<>>)
        => /\ Appended(s, os[s])
                = <<"{">>
                  \o Written(serialize(ArgT(s), ArgV(s)), {"os", "cout"}, FALSE)
                  \o <<"}">>
           /\ os[s] # "cout" => Appended(s, "cout") = <<>>

(***************************************************************************)
(* C10: two calls on distinct streams do not interfere: whatever the       *)
(* interleaving of their steps, each stream ends up with exactly the text  *)
(* its own call appends when run alone, and a stream given to neither call *)
(* is left as it was.                                                      *)
(***************************************************************************)
C10_NoInterference ==
    (Done(1) /\ Done(2) /\ os[1] # os[2])
    => /\ \A s \in Sessions : Appended(s, os[s]) = AloneText(s, os[s])
       /\ \A k \in Sinks \ {os[1], os[2]} : sink[k] = PriorText

(***************************************************************************)
(* C11: every text print appends, with no name, to the stream it was given *)
(* is a sentence of the grammar                                            *)
(*   Value := Scalar | null | [ ] | [ Value , ... , Value ]                *)
(*          | { } | { Field , ... , Field }                                *)
(*   Field := "name" : Value                                               *)
(* (no separator after the last item of a list),                           *)
(* where a Scalar is a numeral, the word true or false, a text between two *)
(* quote characters or one printable character.                            *)
(***************************************************************************)
IsIntText(u) ==
    \/ IsNumeral(u)
    \/ Len(u) > 1 /\ u[1] = "-" /\ IsNumeral(Tail(u))

\* whether the word w stands in t at position i
WordAt(t, i, w) ==
    /\ i + Len(w) - 1 <= Len(t)
    /\ SubSeq(t, i, i + Len(w) - 1) = w

\* the positions just after a Scalar (or null) that starts at position i of t
ScalarEnds(t, i) ==
    {j \in (i + 1)..(Len(t) + 1) : IsIntText(SubSeq(t, i, j - 1))}
    \cup {i + Len(w) : w \in {w \in {<<"t", "r", "u", "e">>, <<"f", "a", "l", "s", "e">>,
                                      <<"n", "u", "l", "l">>} : WordAt(t, i, w)}}
    \cup (IF t[i] = Quote THEN {j \in (i + 2)..(Len(t) + 1) : t[j - 1] = Quote} ELSE {})
    \cup (IF t[i] # Backspace THEN {i + 1} ELSE {})

RECURSIVE ValueEnds(_, _), ItemsEnds(_, _, _, _)
\* the positions just after a Value that starts at position i of t
ValueEnds(t, i) ==
    IF i > Len(t) THEN {}
    ELSE LET Group(close, fields) ==
                 (IF i + 1 <= Len(t) /\ t[i + 1] = close THEN {i + 2} ELSE {})
                 \cup ItemsEnds(t, i + 1, close, fields)
         IN  ScalarEnds(t, i)
             \cup (IF t[i] = "[" THEN Group("]", FALSE) ELSE {})
             \cup (IF t[i] = "{" THEN Group("}", TRUE) ELSE {})

\* the positions just after the closing character of a list of one or more
\* items (fields or values) separated by ',' that starts at position i of t
ItemsEnds(t, i, close, fields) ==
    LET FieldEnds ==
            IF i > Len(t) \/ t[i] # Quote THEN {}
            ELSE UNION {ValueEnds(t, q + 2) :
                          q \in {q \in (i + 1)..(Len(t) - 1) :
                                    t[q] = Quote /\ t[q + 1] = ":"}}
        After(j) ==
            IF j > Len(t) THEN {}
            ELSE IF t[j] = close THEN {j + 1}
            ELSE IF t[j] = "," THEN ItemsEnds(t, j + 1, close, fields)
            ELSE {}
    IN  UNION {After(j) : j \in (IF fields THEN FieldEnds ELSE ValueEnds(t, i))}

IsSentence(t) == (Len(t) + 1) \in ValueEnds(t, 1)

C11_GrammarSentence ==
    \A s \in Sessions :
        (Done(s) /\ ArgN(s) = <<>>) => IsSentence(Appended(s, os[s]))

(***************************************************************************)
(* C12: print is idempotent and keeps no hidden state: when the same value *)
(* with the same name has been printed by two calls on two distinct        *)
(* streams that held the same text before, the two streams hold the same   *)
(* text afterwards.                                                        *)
(***************************************************************************)
C12_SameTextOnBothSinks ==
    (Done(1) /\ Done(2) /\ arg[1] = arg[2] /\ os[1] # os[2])
    => sink[os[1]] = sink[os[2]]

(***************************************************************************)
(* C13: print only appends. In every step each stream's text before the    *)
(* step is a prefix of its text after the step; the one exception allowed  *)
(* is a step that takes away a separator ',' that ends the text.           *)
(***************************************************************************)
IsPrefix(a, b) == Len(a) <= Len(b) /\ SubSeq(b, 1, Len(a)) = a

C13_AppendOnly ==
    [][\A k \in Sinks :
          \/ IsPrefix(sink[k], sink'[k])
          \/ /\ sink[k] # <<>>
             /\ sink[k][Len(sink[k])] = ","
             /\ sink'[k] = SubSeq(sink[k], 1, Len(sink[k]) - 1)]_vars

C13_Witness ==
    \E s \in Sessions :
        /\ Done(s)
        /\ Classify(ArgT(s)) = "print_container"
        /\ \E i \in 1..(Len(sink["cout"]) - 1) :
              /\ i > mark[s].cout
              /\ sink["cout"][i] = ","
              /\ sink["cout"][i + 1] = Backspace
        /\ IsPrefix(PriorText, sink["cout"])

(***************************************************************************)
(* C14: the value a nullable is compared with to find out whether it is    *)
(* empty is chosen by the type alone: std::nullopt exactly for the types   *)
(* that accept assignment from std::nullopt (std::optional), nullptr for   *)
(* every other nullable (raw pointer, unique_ptr, shared_ptr, a class with *)
(* the pointer operators); the nullable is then rendered either as null    *)
(* or as the value it holds.                                               *)
(***************************************************************************)
NullWord == <<"n", "u", "l", "l">>

C14_NullPolicyByType ==
    \A s \in Sessions :
        (Running(s, "call") /\ Head(todo[s])[2] = "print_pointer") =>
            LET T == Head(todo[s])[3]
                next == todo[s][2]
            IN  /\ makeNullValue(T) = IF T[1] = "optional" THEN "nullopt" ELSE "nullptr"
                /\ \/ next = Put("cout", NullWord)
                   \/ next = Enter(TargetType(T), <<>>)

C14_Witness ==
    \E s \in Sessions :
        /\ Running(s, "call")
        /\ Head(todo[s])[2] = "print_pointer"
        /\ Head(todo[s])[3] = <<"optional", <<"int">>>>
        /\ todo[s][2][1] = "put"
        /\ depth[s] = 2

(***************************************************************************)
(* C15: when a write on a stream fails the failure is not recovered from   *)
(* and print stops there: after the failed write the call attempts no      *)
(* further write on any stream.                                            *)
(***************************************************************************)
\* the effects the call of session s has played after the write that failed
PlayedAfterFailure(s) ==
    LET E == print(ArgT(s), ArgV(s), ArgN(s))
    IN  SubSeq(E, Len(E) - failpos[s] + 2, Len(E) - Len(todo[s]))

C15_AbortAtFailure ==
    \A s \in Sessions :
        (failpos[s] > 0 /\ pc[s] # "thrown")
        => \A i \in 1..Len(PlayedAfterFailure(s)) :
              PlayedAfterFailure(s)[i][1] \notin {"put", "putbool"}

\* the same, for streams that throw on failure
C15_AbortWhenThrowing ==
    \A s \in Sessions :
        (failpos[s] > 0 /\ \A k \in Sinks : exceptions[k])
        => /\ pc[s] = "thrown"
           /\ todo[s] = <<>>

(***************************************************************************)
(* C16: print of a finite value comes to an end, and while it runs the     *)
(* number of print frames on the stack never exceeds the structural depth  *)
(* of the value: 1 for a scalar (a text included), one more than its       *)
(* deepest element, pointee or field for a sequence, a nullable that holds *)
(* a value, or a self-describing value. When the call has returned no      *)
(* frame is left.                                                          *)
(***************************************************************************)
MaxOf(S) == IF S = {} THEN 0 ELSE CHOOSE m \in S : \A x \in S : x <= m

RECURSIVE StructDepth(_, _)
StructDepth(T, v) ==
    IF is_convertible_to_string_view(T) THEN 1
    ELSE CASE Classify(T) = "print_container" ->
                1 + MaxOf({StructDepth(ElemType(T), Elements(T, v)[i]) :
                             i \in 1..Len(Elements(T, v))})
           [] Classify(T) = "print_pointer" ->
                IF EqualsSentinel(T, v, makeNullValue(T)) THEN 1
                ELSE 1 + StructDepth(TargetType(T), Deref(T, v))
           [] Classify(T) = "serialize" ->
                1 + MaxOf({StructDepth(ClassFields(T[1])[i][2], v[1][i]) :
                             i \in 1..Len(ClassFields(T[1]))})
           [] OTHER -> 1

C16_FramesWithinDepth ==
    \A s \in Sessions :
        /\ pc[s] = "run" => /\ todo[s] # <<>>
                            /\ depth[s] <= StructDepth(ArgT(s), ArgV(s))
                            /\ Len(todo[s]) <= Len(print(ArgT(s), ArgV(s), ArgN(s)))
        /\ Done(s) => depth[s] = 0 /\ todo[s] = <<>>

(***************************************************************************)
(* Reading the database                                                    *)
(***************************************************************************)

PairwiseDistinctNames(list) ==
    \A i, j \in 1..Len(list) : i # j => list[i].name # list[j].name

(***************************************************************************)
(* C17: the records of the database are grouped by profession, all         *)
(* engineers before all doctors before all lawyers, after construction     *)
(* from any list and after any sequence of insert and remove.              *)
(***************************************************************************)
C17_PartitionedByProfession ==
    Alive =>
        \A i, j \in 1..Len(mEmployees) :
            i < j => PositionValue(mEmployees[i].position)
                       <= PositionValue(mEmployees[j].position)

(***************************************************************************)
(* C18: after inserts of pairwise distinct names into a database that was  *)
(* empty at first, find(id) of every id an insert returned is not end()    *)
(* and refers to the record that insert was given, and find(name) of every *)
(* inserted name is not end().                                             *)
(***************************************************************************)
C18_InsertedAreFound ==
    dbpc = "fresh" =>
        /\ \A r \in log :
              /\ find_id(r[1]) # end
              /\ At(find_id(r[1])) = [r[2] EXCEPT !.id = r[1]]
              /\ find_name(r[2].name) # end
              /\ At(find_name(r[2].name)).name = r[2].name
        /\ Cardinality(log) = size

C18_Witness ==
    /\ dbpc = "fresh"
    /\ Cardinality(log) = 2
    /\ call[1] = "insert"
    /\ call[2].position = "ENGINEER"
    /\ At(1).position = "LAWYER"

(***************************************************************************)
(* C19: in a database constructed from a list of records with pairwise     *)
(* distinct names, find(name) of every name of the list is not end() and   *)
(* refers to a record with that name, and size() is the length of the      *)
(* list.                                                                   *)
(***************************************************************************)
C19_ConstructedAreFound ==
    (/\ Alive
     /\ call[1] = "EmployeesDb"
     /\ Len(call) = 2
     /\ PairwiseDistinctNames(call[2]))
    => /\ size = Len(call[2])
       /\ \A i \in 1..Len(call[2]) :
             /\ find_name(call[2][i].name) # end
             /\ At(find_name(call[2][i].name)).name = call[2][i].name

C19_Witness ==
    /\ Alive
    /\ call[1] = "EmployeesDb"
    /\ Len(call) = 2
    /\ Len(call[2]) = 2
    /\ call[2][1].name # call[2][2].name
    /\ call[2][1].position = "LAWYER"
    /\ call[2][2].position = "ENGINEER"
    /\ generateId_id > 3

(***************************************************************************)
(* C20: range(db, p) delimits exactly the records of profession p: every   *)
(* record in [first, second) has profession p, no record before first or   *)
(* from second on has it, and the range is empty when no record has it.    *)
(***************************************************************************)
C20_RangeIsTheProfession ==
    Alive =>
        \A p \in Professions :
            LET first == range(p)[1]
                second == range(p)[2]
            IN  /\ \A i \in Iterators(first, second) : At(i).position = p
                /\ \A i \in Iterators(0, first) : At(i).position # p
                /\ \A i \in Iterators(second, end) : At(i).position # p
                /\ (\A i \in Iterators(0, end) : At(i).position # p) => first = second

\* the same, for the states in which the records are grouped by profession
C20_WhenPartitioned ==
    (\A i, j \in 1..Len(mEmployees) :
        i < j => PositionValue(mEmployees[i].position)
                   <= PositionValue(mEmployees[j].position))
    => C20_RangeIsTheProfession

(***************************************************************************)
(* Reading what a statistic returned                                       *)
(***************************************************************************)

\* the iterators of the records of profession p
RecordsOf(p) == {i \in Iterators(0, end) : At(i).position = p}

RECURSIVE SalarySum(_)
\* the sum of the salaries of the records at the iterators I
SalarySum(I) ==
    IF I = {} THEN 0
    ELSE LET i == CHOOSE i \in I : TRUE
         IN  At(i).salary + SalarySum(I \ {i})

\* the records are grouped by profession, in the order of the enumerators
IsGrouped ==
    \A i, j \in 1..Len(mEmployees) :
        i < j => PositionValue(mEmployees[i].position)
                   <= PositionValue(mEmployees[j].position)

\* the last call was f for a profession that has records
AskedFor(f) == call[1] = f /\ RecordsOf(call[2]) # {}

\* the salary at index k, counted from 0, of the salaries of the records at
\* the iterators I in ascending order
SortedSalaryAt(I, k) ==
    CHOOSE x \in {At(i).salary : i \in I} :
        /\ Cardinality({i \in I : At(i).salary < x}) <= k
        /\ Cardinality({i \in I : At(i).salary <= x}) > k

(***************************************************************************)
(* C21: for a profession with at least one record avgSalaryPerPosition     *)
(* returns the sum of the salaries of the records of that profession, and  *)
(* of no other, divided by their number and truncated to an integer.       *)
(***************************************************************************)
C21_AvgSalary ==
    AskedFor("avgSalaryPerPosition") =>
        /\ Len(call) = 3
        /\ call[3] = SalarySum(RecordsOf(call[2])) \div Cardinality(RecordsOf(call[2]))

\* the same, for the states in which the records are grouped by profession
C21_WhenGrouped == IsGrouped => C21_AvgSalary

(***************************************************************************)
(* C22: for a profession with k >= 1 records medianSalaryPerPosition       *)
(* returns the salary at index floor(k/2) of the salaries of the records   *)
(* of that profession in ascending order.                                  *)
(***************************************************************************)
C22_MedianSalary ==
    AskedFor("medianSalaryPerPosition") =>
        /\ Len(call) = 3
        /\ call[3] = SortedSalaryAt(RecordsOf(call[2]),
                                    Cardinality(RecordsOf(call[2])) \div 2)

\* the same, for the states in which the records are grouped by profession
C22_WhenGrouped == IsGrouped => C22_MedianSalary

(***************************************************************************)
(* C23: for 0 <= n <= the number of records of profession p,               *)
(* topNSalariesPerPosition(db, p, n) returns n records, all of profession  *)
(* p and stored in the database, each once, by non-increasing salary, and  *)
(* no record of profession p left out has a greater salary than the last   *)
(* one returned.                                                           *)
(***************************************************************************)
C23_TopNSalaries ==
    (/\ call[1] = "topNSalariesPerPosition"
     /\ call[2][2] <= Cardinality(RecordsOf(call[2][1])))
    => /\ Len(call) = 3
       /\ LET p == call[2][1]
              n == call[2][2]
              top == call[3]
          IN  /\ Len(top) = n
              /\ \A i \in 1..n : top[i].position = p
              /\ \A i \in 1..n : \E k \in RecordsOf(p) : At(k) = top[i]
              /\ \A i, j \in 1..n : i < j => /\ top[i] # top[j]
                                             /\ top[i].salary >= top[j].salary
              /\ \A k \in RecordsOf(p) :
                    (\A i \in 1..n : top[i] # At(k))
                    => \A i \in 1..n : At(k).salary <= top[i].salary

\* the same, for the states in which the records are grouped by profession
C23_WhenGrouped == IsGrouped => C23_TopNSalaries

(***************************************************************************)
(* Reading one step of the database.                                       *)
(***************************************************************************)
\* the indices (from 1) of the stored records bearing a name
Bearing(name) == {i \in 1..Len(mEmployees) : mEmployees[i].name = name}

\* the stored records, as a set
Stored == {mEmployees[i] : i \in 1..Len(mEmployees)}

(***************************************************************************)
(* C24: insert with a name that is already stored updates that employee:   *)
(* the call is defined, the record stored under the name becomes the new   *)
(* data with its old id, that id is returned, the size is unchanged and    *)
(* every other record is unchanged.                                        *)
(***************************************************************************)
C24_InsertUpdates ==
    [][\A data \in Inputs :
          (/\ data.name \in DOMAIN mNameLookup
           /\ Cardinality(Bearing(data.name)) = 1
           /\ call'[1] = "insert"
           /\ insert(data))
          => /\ dbpc' # "ub"
             /\ Len(mEmployees') = Len(mEmployees)
             /\ \A i \in 1..Len(mEmployees) :
                   IF i \in Bearing(data.name)
                   THEN /\ mEmployees'[i] = [data EXCEPT !.id = mEmployees[i].id]
                        /\ call' = <<"insert", data, mEmployees[i].id>>
                   ELSE mEmployees'[i] = mEmployees[i]]_vars

(***************************************************************************)
(* C25: the name index has an entry for exactly the names of the stored    *)
(* records, each entry holds the id of a stored record bearing that name,  *)
(* and find(name) gives a record with that name, or end() for a name that  *)
(* is not stored.                                                          *)
(***************************************************************************)
C25_NameIndex ==
    Alive =>
       /\ DOMAIN mNameLookup = {e.name : e \in Stored}
       /\ \A name \in DOMAIN mNameLookup :
             \E e \in Stored : e.name = name /\ e.id = mNameLookup[name]
       /\ \A name \in EmployeeNames :
             IF Bearing(name) # {}
             THEN find_name(name) # end /\ At(find_name(name)).name = name
             ELSE find_name(name) = end

(***************************************************************************)
(* C26: the id index has exactly one entry per stored record, each entry   *)
(* holds the current index of the record with that id, within the bounds   *)
(* of the vector, and find(id) gives the record with that id, or end() for *)
(* an id that is not stored.                                               *)
(***************************************************************************)
C26_IdIndex ==
    Alive =>
       /\ DOMAIN mIdLookup = {e.id : e \in Stored}
       /\ Cardinality(DOMAIN mIdLookup) = Len(mEmployees)
       /\ \A id \in DOMAIN mIdLookup :
             /\ mIdLookup[id] \in 0..(Len(mEmployees) - 1)
             /\ At(mIdLookup[id]).id = id
       /\ \A id \in 0..(MaxId + 1) :
             IF \E e \in Stored : e.id = id
             THEN find_id(id) # end /\ At(find_id(id)).id = id
             ELSE find_id(id) = end

\* the second insert into an empty database went in front of the first
\* record, whose index moved from 0 to 1
C26_Witness ==
    /\ dbpc = "fresh"
    /\ call[1] = "insert"
    /\ Len(call) = 3
    /\ call[3] = 2
    /\ DOMAIN mIdLookup = {1, 2}
    /\ mIdLookup[2] = 0
    /\ mIdLookup[1] = 1

(***************************************************************************)
(* C27: remove(id) and remove(name) remove exactly the record with that    *)
(* id or name: the vector is the old one without that record, find of its  *)
(* id and of its name give end(), every other record is still found by its *)
(* id and by its name; when no record has the id or the name nothing       *)
(* changes.                                                                *)
(***************************************************************************)
\* the step removes the record at index i (from 1) and nothing else; the
\* records are those of the state before, the lookups those of the state
\* after
RemovesRecord(i) ==
    /\ mEmployees' = EraseAt(mEmployees, i - 1)
    /\ \A gone \in {mEmployees[i]} :
          /\ find_id(gone.id)' = end'
          /\ find_name(gone.name)' = end'
    /\ \A e \in {mEmployees[j] : j \in (1..Len(mEmployees)) \ {i}} :
          /\ find_id(e.id)' # end'
          /\ At(find_id(e.id))' = e
          /\ find_name(e.name)' # end'
          /\ At(find_name(e.name))' = e

\* what the claim says of a step that is a call of remove
RemovesExactlyOne ==
    /\ \A id \in 1..MaxId :
          (call'[1] = "remove_id" /\ remove_id(id)) =>
             IF \E e \in Stored : e.id = id
             THEN \E i \in 1..Len(mEmployees) :
                     mEmployees[i].id = id /\ RemovesRecord(i)
             ELSE UNCHANGED <<mEmployees, mNameLookup, mIdLookup>>
    /\ \A name \in EmployeeNames :
          (call'[1] = "remove_name" /\ remove_name(name)) =>
             IF Bearing(name) # {}
             THEN \E i \in Bearing(name) : RemovesRecord(i)
             ELSE UNCHANGED <<mEmployees, mNameLookup, mIdLookup>>

C27_RemoveExactlyOne == [][RemovesExactlyOne]_vars

\* the same from the states in which the names are pairwise distinct and
\* the name index is right
C27_WhenNamesRight ==
    [][(C25_NameIndex /\ \A name \in EmployeeNames : Cardinality(Bearing(name)) <= 1)
          => RemovesExactlyOne]_vars

(***************************************************************************)
(* C28: the stored records have pairwise distinct ids other than 0; an id  *)
(* handed out by generateId is greater than every id handed out before,    *)
(* in this database or an earlier one; the id of a removed record is never *)
(* given again.                                                            *)
(***************************************************************************)
\* the ids of the stored records
StoredIds == {e.id : e \in Stored}

\* generateId has handed out the ids 1 .. generateId_id - 1
HandedOut == 1..(generateId_id - 1)

C28_IdsUnique ==
    [][dbpc' # "ub" =>
          /\ Cardinality(StoredIds') = Len(mEmployees')
          /\ 0 \notin StoredIds'
          /\ StoredIds' \subseteq HandedOut'
          /\ generateId_id' >= generateId_id
          /\ \A id \in StoredIds' : id \in StoredIds \/ id \notin HandedOut]_vars

\* the record inserted last got the id 3 while the ids 1 and 2, handed out
\* before, are no longer stored
C28_Witness ==
    /\ Alive
    /\ call[1] = "insert"
    /\ Len(call) = 3
    /\ call[3] = 3
    /\ StoredIds = {3}

(***************************************************************************)
(* C29: the statistics of a profession are defined for every database and  *)
(* every profession, one without records included: a call of               *)
(* avgSalaryPerPosition, medianSalaryPerPosition or                        *)
(* minMaxSalaryPerPosition returns a value and none divides by zero or     *)
(* reads outside the range of the profession.                              *)
(***************************************************************************)
C29_StatisticsDefined ==
    call[1] \in {"avgSalaryPerPosition", "medianSalaryPerPosition",
                 "minMaxSalaryPerPosition"}
    => dbpc # "ub" /\ Len(call) = 3

(***************************************************************************)
(* C30: a raw pointer to a character goes to the nullable strategy, not to *)
(* the scalar one: a non-null char pointer is rendered as the one          *)
(* character it points to, without quotes, while a character array or a    *)
(* std::string is rendered as its whole text between quotes.               *)
(***************************************************************************)
CharPointer == <<"raw_ptr", <<"char">>>>

\* what a finished call has appended to its stream after the label, if the
\* label went to the same stream
AfterLabel(s) ==
    LET t == Appended(s, os[s])
        l == IF os[s] = "cout" THEN Len(LabelText(ArgN(s))) ELSE 0
    IN  SubSeq(t, l + 1, Len(t))

C30_CharPointerIsNullable ==
    \A s \in Sessions :
        /\ (Running(s, "call") /\ Head(todo[s])[3] = CharPointer)
           => Head(todo[s])[2] = "print_pointer"
        /\ (Running(s, "call") /\ Head(todo[s])[3][1] \in {"char_array", "string"})
           => Head(todo[s])[2] = "print_default"
        /\ (Done(s) /\ ArgT(s) = CharPointer /\ ArgV(s) # <<>>)
           => AfterLabel(s) = <<ArgV(s)[1]>>
        /\ (Done(s) /\ ArgT(s)[1] \in {"char_array", "string"})
           => AfterLabel(s) = <<Quote>> \o ArgV(s) \o <<Quote>>

C30_Witness ==
    \E s \in Sessions :
        /\ Done(s)
        /\ ArgT(s) = CharPointer
        /\ ArgV(s) = <<"c">>
        /\ ArgN(s) = <<>>
        /\ Appended(s, os[s]) = <<"c">>

====
